---- MODULE Spec2Model ----
(***************************************************************************)
(* The deterministic clue-ranking agent of src/ClueMeisterRANK.py:         *)
(* ClueMeisterAgent.process_request and the helpers it calls.              *)
(*                                                                         *)
(* Strings are sequences of tokens.  The token alphabet is chosen so that  *)
(* the substring " at " occurs exactly where the token " at " stands, the  *)
(* character "," exactly where the token "," stands and white space        *)
(* exactly where the token " " stands; the other tokens are words          *)
(* (letters only), decimal digits and the literal "1e200".                 *)
(*                                                                         *)
(* Floats are records: a finite integer value [mag |-> "fin", v |-> n], a  *)
(* finite value m * 10^200 whose square lies outside the double range      *)
(* [mag |-> "huge", v |-> m], or infinity.  Exceptions are records         *)
(* [exc |-> <type>] returned in place of a value.  A value computed once   *)
(* and used several times is passed to an operator as a parameter.         *)
(***************************************************************************)
EXTENDS Integers, Sequences, FiniteSets, TLC

\* ------------------------------------------------------------ bounds
\* The request machine: clues in the Clue Source, points of an update_path.
MaxClues == 2

MaxPathLen == 1

\* rank_clues on its own: clues in the Clue Source, points on the path.
MaxRankClues == 3

MaxRankPathLen == 2

\* _parse_clue on its own: tokens of a description.
MaxDescLen == 5

\* ------------------------------------------------------------ exceptions
Raise(type) == [exc |-> type]

\* A value that is no record, returned where an exception may be raised.
Ok(x) == [val |-> x]

Raised(x) == "exc" \in DOMAIN x

\* ------------------------------------------------------------ floats
Num(n) == [mag |-> "fin", v |-> n]

Huge(m) == [mag |-> "huge", v |-> m]

Inf == [mag |-> "inf", v |-> 0]

Abs(n) == IF n < 0 THEN -n ELSE n

\* p1[i] - p2[i] up to sign (the result is only ever squared).  A small
\* value is absorbed by a huge one; two huge values differ by a huge value
\* unless they are equal.
FloatSub(x, y) ==
    IF x.mag = "inf" \/ y.mag = "inf" THEN Inf
    ELSE IF x.mag = "huge" /\ y.mag = "huge"
         THEN (IF x.v = y.v THEN Num(0) ELSE Huge(Abs(x.v - y.v)))
    ELSE IF x.mag = "huge" THEN x
    ELSE IF y.mag = "huge" THEN y
    ELSE Num(Abs(x.v - y.v))

\* x ** 2 on floats: OverflowError when the finite result leaves the double
\* range, inf ** 2 = inf.
FloatSquare(x) ==
    IF x.mag = "huge" THEN Raise("OverflowError")
    ELSE IF x.mag = "inf" THEN Inf
    ELSE Num(x.v * x.v)

\* A coordinate (lat, lon): p[0] is p.lat, p[1] is p.lon.
Coord(lat, lon) == [lat |-> lat, lon |-> lon]

FloatAdd(x, y) ==
    IF x.mag = "inf" \/ y.mag = "inf" THEN Inf ELSE Num(x.v + y.v)

\* ------------------------------------------------------------ reals a - sqrt(d)
\* A distance is the non-negative root of an integer, or infinity:
\* [inf |-> FALSE, sq |-> D] stands for sqrt(D).
Root(D) == [inf |-> FALSE, sq |-> D]

RootInf == [inf |-> TRUE, sq |-> 0]

RootLess(r, s) ==
    IF r.inf THEN FALSE ELSE IF s.inf THEN TRUE ELSE r.sq < s.sq

IsSquare(D) == \E r \in 0..100 : r * r = D

IntRoot(D) == CHOOSE r \in 0..100 : r * r = D

\* A score is a real a - sqrt(d), kept in normal form: d is 0 or no perfect
\* square, so that two scores are equal exactly when their records are.
Real(a, D) ==
    IF IsSquare(D) THEN [a |-> a - IntRoot(D), d |-> 0] ELSE [a |-> a, d |-> D]

\* x >= y for x = a1 - sqrt(d1), y = a2 - sqrt(d2): sqrt(d2) - sqrt(d1) >= a2 - a1.
RealGE(x, y) ==
    LET k == y.a - x.a
        m == y.d - x.d - k * k
        n == x.d - y.d - k * k
    IN  IF k >= 0
        THEN m >= 0 /\ m * m >= 4 * k * k * x.d
        ELSE n <= 0 \/ n * n <= 4 * k * k * y.d

RealGT(x, y) == ~RealGE(y, x)

RealAddInt(t, x) == [a |-> t + x.a, d |-> x.d]

\* ------------------------------------------------------------ strings
SEP_AT == " at "

Digits == {"0", "1", "3", "4"}

DigitVal(c) == IF c = "0" THEN 0 ELSE IF c = "1" THEN 1 ELSE IF c = "3" THEN 3 ELSE 4

IsDigits(s) == \A i \in 1..Len(s) : s[i] \in Digits

RECURSIVE DecimalValue(_)
DecimalValue(s) ==
    IF s = <<>> THEN 0
    ELSE 10 * DecimalValue(SubSeq(s, 1, Len(s) - 1)) + DigitVal(s[Len(s)])

\* str.split(sep): the pieces between the occurrences of sep, always at
\* least one piece.
RECURSIVE Split(_, _)
Split(s, sep) ==
    IF \A i \in 1..Len(s) : s[i] # sep THEN <<s>>
    ELSE LET i == CHOOSE j \in 1..Len(s) :
                      s[j] = sep /\ \A h \in 1..(j - 1) : s[h] # sep
         IN  <<SubSeq(s, 1, i - 1)>> \o Split(SubSeq(s, i + 1, Len(s)), sep)

\* str.strip(): leading and trailing white space removed.
RECURSIVE Strip(_)
Strip(s) ==
    IF s = <<>> THEN s
    ELSE IF s[1] = " " THEN Strip(Tail(s))
    ELSE IF s[Len(s)] = " " THEN Strip(SubSeq(s, 1, Len(s) - 1))
    ELSE s

\* The place of the literal "1e200" in s, 0 when it has none.
HugeAt(s) ==
    IF \E i \in 1..Len(s) : s[i] = "1e200"
    THEN CHOOSE i \in 1..Len(s) : s[i] = "1e200" /\ \A h \in 1..(i - 1) : s[h] # "1e200"
    ELSE 0

\* float(s) for s without white space around it: a run of digits is its
\* decimal value; digits followed by "1e200" is a finite value beyond
\* 1e200; a literal whose exponent continues with more digits is beyond the
\* double range and reads as infinity; anything else is a ValueError.
FloatOfStripped(s) ==
    IF s # <<>> /\ IsDigits(s) THEN Num(DecimalValue(s))
    ELSE IF /\ HugeAt(s) > 0
            /\ IsDigits(SubSeq(s, 1, HugeAt(s) - 1))
            /\ IsDigits(SubSeq(s, HugeAt(s) + 1, Len(s)))
         THEN (IF HugeAt(s) = Len(s)
               THEN Huge(10 * DecimalValue(SubSeq(s, 1, HugeAt(s) - 1)) + 1)
               ELSE Inf)
    ELSE Raise("ValueError")

\* float(str): white space around the literal is ignored.
Float(str) == FloatOfStripped(Strip(str))

\* ------------------------------------------------------------ the agent's helpers
STR_UNKNOWN == <<"unknown">>

\* CLUE_TYPE_POINTS.get(clue_type, CLUE_TYPE_POINTS["unknown"])
CLUE_TYPE_POINTS(clue_type) ==
    IF clue_type = <<"IR signature">> THEN 30
    ELSE IF clue_type = <<"red hat">> THEN 20
    ELSE IF clue_type = <<"footprint">> THEN 10
    ELSE IF clue_type = STR_UNKNOWN THEN 5
    ELSE 5

\* coord = (float(lat_str.strip()), float(lon_str.strip())): the first
\* ValueError raised, else the coordinate.
MakeCoord(lat, lon) ==
    IF Raised(lat) THEN lat
    ELSE IF Raised(lon) THEN lon
    ELSE Coord(lat, lon)

\* lat_str, lon_str = cs: ValueError unless cs has exactly two components.
UnpackCoord(cs) ==
    IF Len(cs) # 2 THEN Raise("ValueError")
    ELSE MakeCoord(Float(Strip(cs[1])), Float(Strip(cs[2])))

\* The try block: parts[1] raises IndexError when there is no second part.
ParseCoord(parts) ==
    IF Len(parts) > 1 THEN UnpackCoord(Split(parts[2], ","))
    ELSE Raise("IndexError")

\* except Exception: coord = (0.0, 0.0)
ExceptCoord(c) == IF Raised(c) THEN Coord(Num(0), Num(0)) ELSE c

\* try: ... except Exception: ...
TryCoord(parts) == ExceptCoord(ParseCoord(parts))

\* The parts parsed by a parser that falls back to "unknown" whenever the
\* coordinate is defaulted.
ParseParts_TypeReset(parts) ==
    [type  |-> IF Len(parts) > 1 /\ ~Raised(ParseCoord(parts))
               THEN Strip(parts[1]) ELSE STR_UNKNOWN,
     coord |-> TryCoord(parts)]

\* clue_type and coord of the parts of the description.
ParseParts(parts) ==
    [type  |-> IF Len(parts) > 1 THEN Strip(parts[1]) ELSE STR_UNKNOWN,
     coord |-> TryCoord(parts)]

_parse_clue(description) == ParseParts(Split(description, SEP_AT))

\* math.sqrt(dx + dy) of the two squares, or the OverflowError of the
\* first square that raised.
SqrtOfSum(dx, dy) ==
    IF Raised(dx) THEN dx
    ELSE IF Raised(dy) THEN dy
    ELSE IF FloatAdd(dx, dy).mag = "inf" THEN RootInf
    ELSE Root(FloatAdd(dx, dy).v)

\* math.sqrt((p1[0] - p2[0])**2 + (p1[1] - p2[1])**2)
_euclidean_distance(p1, p2) ==
    SqrtOfSum(FloatSquare(FloatSub(p1.lat, p2.lat)), FloatSquare(FloatSub(p1.lon, p2.lon)))

\* min(ds) of the distances the generator yields: the first exception
\* raised while iterating propagates, else the least distance.
MinOf(ds) ==
    IF \E i \in 1..Len(ds) : Raised(ds[i])
    THEN ds[CHOOSE i \in 1..Len(ds) : Raised(ds[i]) /\ \A h \in 1..(i - 1) : ~Raised(ds[h])]
    ELSE ds[CHOOSE i \in 1..Len(ds) : \A h \in 1..Len(ds) : ~RootLess(ds[h], ds[i])]

\* min(self._euclidean_distance(coord, p) for p in self.path): ValueError
\* when the path has no point.
_min_distance_to_path(coord, self_path) ==
    IF self_path = <<>> THEN Raise("ValueError")
    ELSE MinOf([i \in 1..Len(self_path) |-> _euclidean_distance(coord, self_path[i])])

\* max(0, 100 - distance)
ProximityScore(distance) ==
    IF distance.inf \/ distance.sq >= 100 * 100 THEN Real(0, 0)
    ELSE Real(100, distance.sq)

\* total_score = score + proximity_score; ranked.append((cid, desc, total_score))
TotalScore(cid, description, score, distance) ==
    IF Raised(distance) THEN distance
    ELSE [id |-> cid, description |-> description,
          score |-> RealAddInt(score, ProximityScore(distance))]

\* The loop body after clue_type, coord = self._parse_clue(desc).
ScoreParsed(cid, description, clue, self_path) ==
    TotalScore(cid, description, CLUE_TYPE_POINTS(clue.type),
               _min_distance_to_path(clue.coord, self_path))

\* The body of the for loop of rank_clues for one clue.
ScoreClue(cid, description, self_path) ==
    ScoreParsed(cid, description, _parse_clue(description), self_path)

\* ranked.sort(key=lambda x: x[2], reverse=True): stable, so a record goes
\* behind every record whose score is not smaller.
RECURSIVE InsertDesc(_, _)
InsertDesc(r, sorted) ==
    IF sorted = <<>> THEN <<r>>
    ELSE IF RealGT(r.score, Head(sorted).score) THEN <<r>> \o sorted
    ELSE <<Head(sorted)>> \o InsertDesc(r, Tail(sorted))

\* A sort that leaves the records in iteration order.
SortDesc_Unsorted(ranked) == ranked

RECURSIVE SortDesc(_)
SortDesc(ranked) ==
    IF ranked = <<>> THEN <<>>
    ELSE InsertDesc(ranked[Len(ranked)], SortDesc(SubSeq(ranked, 1, Len(ranked) - 1)))

\* What the for loop leaves: the first exception a clue raised, else ranked.
LoopResult(rs) ==
    IF \E i \in 1..Len(rs) : Raised(rs[i])
    THEN rs[CHOOSE i \in 1..Len(rs) : Raised(rs[i]) /\ \A h \in 1..(i - 1) : ~Raised(rs[h])]
    ELSE Ok(rs)

\* The for loop of rank_clues over clues.items(), in iteration order.
ScoreAll(clues, self_path) ==
    LoopResult([i \in 1..Len(clues) |->
                   ScoreClue(clues[i].id, clues[i].description, self_path)])

\* ------------------------------------------------------------ python values
\* The value held by self.path: a list of coordinates, or None.
PyList(items) == [list |-> items]

PyNone == [none |-> TRUE]

IsList(x) == "list" \in DOMAIN x

\* not x
PyNot(x) == IF IsList(x) THEN x.list = <<>> ELSE TRUE

\* len(x)
PyLen(x) == IF IsList(x) THEN Ok(Len(x.list)) ELSE Raise("TypeError")

\* str(e)
StrOf(e) ==
    IF e.exc = "OverflowError" THEN "(34, 'Numerical result out of range')"
    ELSE IF e.exc = "TypeError" THEN "object of type 'NoneType' has no len()"
    ELSE IF e.exc = "ValueError" THEN "min() arg is an empty sequence"
    ELSE IF e.exc = "IndexError" THEN "list index out of range"
    ELSE "clue source unavailable"

\* ------------------------------------------------------------ the agent
VARIABLES
    path,       \* self.path
    status,     \* self.status
    kb,         \* the Clue Source: the mapping in iteration order, <<[id, description], ...>>
    msg,        \* the message of the last request
    response,   \* what the last request gave its caller: a payload, or [exc |-> ..] propagated
    handler,    \* the branch of process_request the last request took
    kbRead,     \* the outcome of kb.get_clues() in the last request
    desc,       \* the argument of the last _parse_clue call checked on its own
    parsed      \* and its result

vars == <<path, status, kb, msg, response, handler, kbRead, desc, parsed>>

NotYet == [none |-> TRUE]

\* self.kb.get_clues(): the mapping, or the exception of a failing read.
kb_get_clues(clues, fails) ==
    IF fails THEN Raise("Exception") ELSE Ok(clues)

\* return {"clues": clues}
CluesPayload(read) ==
    [read |-> read,
     ret  |-> IF Raised(read) THEN read ELSE [clues |-> read.val]]

clues_to_text(clues, fails) == CluesPayload(kb_get_clues(clues, fails))

\* ranked.sort(...); return {"ranked_clues": [...]}
RankedPayload(ranked) ==
    IF Raised(ranked) THEN ranked ELSE [ranked_clues |-> SortDesc(ranked.val)]

\* rank_clues from clues = self.kb.get_clues() on.
RankRead(self_path, read) ==
    [read |-> read,
     ret  |-> IF Raised(read) THEN read
              ELSE RankedPayload(ScoreAll(read.val, self_path.list))]

\* rank_clues without its check of the path.
rank_clues_NoPathCheck(self_path, clues, fails) ==
    RankRead(IF IsList(self_path) THEN self_path ELSE PyList(<<>>),
             kb_get_clues(clues, fails))

rank_clues(self_path, clues, fails) ==
    IF PyNot(self_path)
    THEN [read |-> NotYet, ret |-> [error |-> "Path is not set"]]
    ELSE RankRead(self_path, kb_get_clues(clues, fails))

\* A dispatch on the presence of the keys, whatever their values.
Dispatch_KeyPresence(message) ==
    IF "get_clues" \in DOMAIN message THEN "clues_to_text"
    ELSE IF "get_status" \in DOMAIN message THEN "get_status"
    ELSE IF "update_path" \in DOMAIN message THEN "update_path"
    ELSE IF "rank_clues" \in DOMAIN message THEN "rank_clues"
    ELSE "unknown"

\* message.get(key)
Get(message, key) == key \in DOMAIN message /\ message[key] = TRUE

\* The if cascade of process_request.
Dispatch(message) ==
    IF Get(message, "get_clues") THEN "clues_to_text"
    ELSE IF Get(message, "get_status") THEN "get_status"
    ELSE IF "update_path" \in DOMAIN message THEN "update_path"
    ELSE IF Get(message, "rank_clues") THEN "rank_clues"
    ELSE "unknown"

\* return {"status": "path updated", "path_length": len(self.path)}
PathUpdated(n) ==
    IF Raised(n) THEN n ELSE [status |-> "path updated", path_length |-> n.val]

\* A path update that keeps the points of the prior path.
UpdatePath_Append(self_path, payload) ==
    IF IsList(self_path) /\ IsList(payload)
    THEN [path |-> PyList(self_path.list \o payload.list),
          ret  |-> PathUpdated(Ok(Len(self_path.list) + Len(payload.list)))]
    ELSE [path |-> payload, ret |-> PathUpdated(PyLen(payload))]

\* self.path = message["update_path"]; return {.., "path_length": len(self.path)}
UpdatePath(self_path, payload) ==
    [path |-> payload, ret |-> PathUpdated(PyLen(payload))]

\* The branch h of the try block: the new self.path, the Clue Source read
\* and the value returned or exception raised.
Branch(h, message, self_path, self_status, clues, fails) ==
    IF h = "clues_to_text"
    THEN [path |-> self_path, h |-> h] @@ clues_to_text(clues, fails)
    ELSE IF h = "get_status"
    THEN [path |-> self_path, h |-> h, read |-> NotYet, ret |-> [status |-> self_status]]
    ELSE IF h = "update_path"
    THEN [h |-> h, read |-> NotYet] @@ UpdatePath(self_path, message["update_path"])
    ELSE IF h = "rank_clues"
    THEN [path |-> self_path, h |-> h] @@ rank_clues(self_path, clues, fails)
    ELSE [path |-> self_path, h |-> h, read |-> NotYet,
          ret |-> [error |-> "Unknown request type"]]

\* The body of the try block.
TryBody(message, self_path, self_status, clues, fails) ==
    Branch(Dispatch(message), message, self_path, self_status, clues, fails)

\* A dispatcher that catches nothing.
Except_Propagate(ret) == ret

\* except Exception as e: return {"error": str(e)}
Except(ret) == IF Raised(ret) THEN [error |-> StrOf(ret)] ELSE ret

\* The effect of a request whose try block came out as body.
Return(message, body) ==
    /\ path' = body.path
    /\ response' = Except(body.ret)
    /\ handler' = body.h
    /\ kbRead' = body.read
    /\ msg' = message
    /\ UNCHANGED <<status, kb, desc, parsed>>

process_request(message, fails) ==
    Return(message, TryBody(message, path, status, kb, fails))

\* ------------------------------------------------------------ inputs
Pt(x, y) == Coord(Num(x), Num(y))

\* The coordinates requests put on the path.
PathPoints == {Pt(0, 0), Pt(300, 400)}

PathsUpTo(points, n) == UNION {[1..k -> points] : k \in 0..n}

\* The values of the update_path key: a list of coordinates, or null.
Payloads == {PyList(p) : p \in PathsUpTo(PathPoints, MaxPathLen)} \cup {PyNone}

BoolKeys == {"get_clues", "get_status", "rank_clues"}

\* flag_clue is a request of the other agents, which this one does not know.
Keys == BoolKeys \cup {"update_path", "flag_clue"}

\* The messages with the keys K.
MessagesOver(K) ==
    {b @@ u @@ f :
        b \in [K \cap BoolKeys -> BOOLEAN],
        u \in IF "update_path" \in K
              THEN {[update_path |-> p] : p \in Payloads} ELSE {<<>>},
        f \in IF "flag_clue" \in K THEN {[flag_clue |-> 1]} ELSE {<<>>}}

\* The messages of at most two keys.
Messages == UNION {MessagesOver({k1, k2}) \cup MessagesOver({k1}) : k1 \in Keys, k2 \in Keys}
                \cup MessagesOver({})

D_IR_00 == <<"IR signature", " at ", "0", ",", "0">>

D_FOOT_34 == <<"footprint", " at ", "3", ",", " ", "4">>

D_HAT_11 == <<"red hat", " at ", "1", ",", "1">>

D_MYSTERY == <<"mystery", " ", "object">>

D_HAT_HUGE == <<"red hat", " at ", "1e200", ",", "0">>

\* The Clue Sources of at most n clues with descriptions drawn from descs,
\* the ids 1, 2, ... in iteration order.
KBs(n, descs) ==
    UNION {{[i \in 1..k |-> [id |-> i, description |-> d[i]]] : d \in [1..k -> descs]} :
              k \in 0..n}

AgentDescs == {D_IR_00, D_HAT_HUGE}

AgentKBs == KBs(MaxClues, AgentDescs)

RankDescs == {D_IR_00, D_FOOT_34, D_HAT_11, D_MYSTERY, D_HAT_HUGE}

RankKBs == KBs(MaxRankClues, RankDescs)

RankPathPoints == {Pt(0, 0), Pt(3, 4), Pt(300, 400)}

RankPaths == {PyList(p) : p \in PathsUpTo(RankPathPoints, MaxRankPathLen)}

ParseAlphabet == {"footprint", SEP_AT, ",", " ", "3"}

ParseDescs == UNION {[1..k -> ParseAlphabet] : k \in 0..MaxDescLen}

\* ------------------------------------------------------------ the request machine
Init ==
    /\ path = PyList(<<>>)
    /\ status = "initialized"
    /\ kb \in AgentKBs
    /\ msg = NotYet
    /\ response = NotYet
    /\ handler = "none"
    /\ kbRead = NotYet
    /\ desc = <<>>
    /\ parsed = NotYet

Request == \E message \in Messages, fails \in BOOLEAN : process_request(message, fails)

Next == Request

Spec == Init /\ [][Next]_vars

\* ------------------------------------------------------------ rank_clues on its own
InitRank ==
    /\ path \in RankPaths
    /\ status = "initialized"
    /\ kb \in RankKBs
    /\ msg = NotYet
    /\ response = NotYet
    /\ handler = "none"
    /\ kbRead = NotYet
    /\ desc = <<>>
    /\ parsed = NotYet

RankRequest == process_request([rank_clues |-> TRUE], FALSE)

NextRank == RankRequest

SpecRank == InitRank /\ [][NextRank]_vars

\* ------------------------------------------------------------ _parse_clue on its own
InitParse ==
    /\ path = PyList(<<>>)
    /\ status = "initialized"
    /\ kb = <<>>
    /\ msg = NotYet
    /\ response = NotYet
    /\ handler = "none"
    /\ kbRead = NotYet
    /\ desc \in ParseDescs
    /\ parsed = NotYet

ParseClue ==
    /\ parsed = NotYet
    /\ parsed' = _parse_clue(desc)
    /\ UNCHANGED <<path, status, kb, msg, response, handler, kbRead, desc>>

NextParse == ParseClue

SpecParse == InitParse /\ [][NextParse]_vars

\* ------------------------------------------------------------ properties of the request machine
ERR_PATH_NOT_SET == [error |-> "Path is not set"]

ERR_UNKNOWN == [error |-> "Unknown request type"]

\* The payload a ValueError of min() over an empty path would surface as.
ERR_MIN_EMPTY == [error |-> StrOf(Raise("ValueError"))]

\* C3: a rank_clues request made while the path is empty is answered with
\* exactly {"error": "Path is not set"}, which holds no ranked_clues list,
\* and no request ever evaluates the minimum distance over an empty path
\* (min() over no points raises, and would be answered with that error).
C3_EmptyPathError ==
    /\ (handler = "rank_clues" /\ PyNot(path)) => response = ERR_PATH_NOT_SET
    /\ response # ERR_MIN_EMPTY

C3_Witness ==
    /\ handler = "rank_clues"
    /\ path = PyList(<<>>)
    /\ Len(kb) > 0
    /\ response = ERR_PATH_NOT_SET

\* The records rank_clues must return for the clues of the source over the
\* points of P, in iteration order.
ScoresOver(clues, P) ==
    [i \in 1..Len(clues) |-> ScoreClue(clues[i].id, clues[i].description, P)]

SameRecords(ranked, expected) ==
    /\ Len(ranked) = Len(expected)
    /\ \A i \in 1..Len(expected) : \E j \in 1..Len(ranked) : ranked[j] = expected[i]

\* C4: after an update_path request with the coordinate sequence P the
\* stored path is exactly P and the answer reports path_length = |P|; and a
\* rank_clues request that follows it scores every clue against the points
\* of P alone.
C4_UpdateReplacesPath ==
    [][ /\ (handler' = "update_path" /\ IsList(msg'.update_path))
            => /\ path' = msg'.update_path
               /\ response' = [status |-> "path updated",
                               path_length |-> Len(msg'.update_path.list)]
        /\ (/\ handler = "update_path"
            /\ IsList(msg.update_path)
            /\ handler' = "rank_clues"
            /\ "ranked_clues" \in DOMAIN response')
            => SameRecords(response'.ranked_clues, ScoresOver(kb, msg.update_path.list))
      ]_vars

\* A ranking over the path [(300, 400)], which only an update can have set:
\* the clue at (0, 0) earns no proximity bonus.
C4_Witness ==
    /\ handler = "rank_clues"
    /\ path = PyList(<<Pt(300, 400)>>)
    /\ "ranked_clues" \in DOMAIN response
    /\ \E i \in 1..Len(response.ranked_clues) :
          /\ response.ranked_clues[i].description = D_IR_00
          /\ response.ranked_clues[i].score = Real(30, 0)

\* C5: the status field is "initialized" after construction and is
\* "path updated" once an update_path request has been answered with
\* "path updated", which is what a get_status request then reports.
C5_StatusTransitions ==
    /\ handler = "none" => status = "initialized"
    /\ (handler = "update_path" /\ "path_length" \in DOMAIN response)
          => status = "path updated"

\* C8: every request is answered with a payload, never with an exception:
\* when the Clue Source read fails the answer is the error payload carrying
\* the exception's message, and so it is for an update_path whose value has
\* no length.
C8_NoFaultPropagates ==
    handler # "none" =>
        /\ ~Raised(response)
        /\ Raised(kbRead) => response = [error |-> StrOf(kbRead)]
        /\ (handler = "update_path" /\ ~IsList(msg.update_path))
              => response = [error |-> StrOf(Raise("TypeError"))]

C8_Witness ==
    /\ handler = "rank_clues"
    /\ Raised(kbRead)
    /\ response = [error |-> "clue source unavailable"]

\* The four request shapes: {"get_clues": true}, {"get_status": true},
\* {"update_path": ...}, {"rank_clues": true}.
Matches(m, h) ==
    IF h = "clues_to_text" THEN "get_clues" \in DOMAIN m /\ m.get_clues = TRUE
    ELSE IF h = "get_status" THEN "get_status" \in DOMAIN m /\ m.get_status = TRUE
    ELSE IF h = "update_path" THEN "update_path" \in DOMAIN m
    ELSE "rank_clues" \in DOMAIN m /\ m.rank_clues = TRUE

Handlers == {"clues_to_text", "get_status", "update_path", "rank_clues"}

\* The documented response of a handler: its keys.
Documented(h, r) ==
    IF h = "clues_to_text" THEN DOMAIN r = {"clues"}
    ELSE IF h = "get_status" THEN DOMAIN r = {"status"}
    ELSE IF h = "update_path" THEN DOMAIN r = {"status", "path_length"}
    ELSE DOMAIN r = {"ranked_clues"} \/ r = ERR_PATH_NOT_SET

C10_PathFrame ==
    [][ /\ path' # path
            => (handler' = "update_path" /\ "path_length" \in DOMAIN response')
        /\ kb' = kb
      ]_vars

\* ------------------------------------------------------------ properties of rank_clues
\* A rank_clues request over a non-empty path whose Clue Source read
\* returned the mapping.
RankedOverPath ==
    /\ handler = "rank_clues"
    /\ ~PyNot(path)
    /\ kbRead = Ok(kb)

\* C1: over a non-empty path, rank_clues returns a ranked_clues list with
\* exactly one record per clue id of the mapping, each with that clue's id
\* and description.
C1_OneRecordPerClue ==
    RankedOverPath =>
        /\ "ranked_clues" \in DOMAIN response
        /\ Len(response.ranked_clues) = Len(kb)
        /\ \A i \in 1..Len(kb) :
              /\ Cardinality({j \in 1..Len(response.ranked_clues) :
                                 response.ranked_clues[j].id = kb[i].id}) = 1
              /\ \E j \in 1..Len(response.ranked_clues) :
                    /\ response.ranked_clues[j].id = kb[i].id
                    /\ response.ranked_clues[j].description = kb[i].description

\* C2: the list rank_clues returns is sorted by score descending: every
\* record's score is at least the score of the record after it.
C2_SortedDescending ==
    "ranked_clues" \in DOMAIN response =>
        \A i \in 1..(Len(response.ranked_clues) - 1) :
            RealGE(response.ranked_clues[i].score, response.ranked_clues[i + 1].score)

\* A ranking of three clues that the sort had to reorder: the last clue of
\* the source comes first, with a strictly greater score than the next.
C2_Witness ==
    /\ "ranked_clues" \in DOMAIN response
    /\ Len(response.ranked_clues) = 3
    /\ response.ranked_clues[1].id = 3
    /\ RealGT(response.ranked_clues[1].score, response.ranked_clues[2].score)
    /\ RealGT(response.ranked_clues[2].score, response.ranked_clues[3].score)

\* The type points of the claim: 30, 20, 10, and 5 for any other type.
ClaimTypePoints(type) ==
    IF type = <<"IR signature">> THEN 30
    ELSE IF type = <<"red hat">> THEN 20
    ELSE IF type = <<"footprint">> THEN 10
    ELSE 5

\* The squares of the distances below 100 from c to the vertices of P.
NearSquares(c, P) ==
    {(c.lat.v - P[i].lat.v) * (c.lat.v - P[i].lat.v)
        + (c.lon.v - P[i].lon.v) * (c.lon.v - P[i].lon.v) :
        i \in {h \in 1..Len(P) :
                 /\ c.lat.mag = "fin" /\ c.lon.mag = "fin"
                 /\ Abs(c.lat.v - P[h].lat.v) < 100
                 /\ Abs(c.lon.v - P[h].lon.v) < 100}}
        \cap 0..(100 * 100 - 1)

\* max(0, 100 - d) for the least distance d from c to the vertices of P.
ClaimBonus(c, P) ==
    LET near == NearSquares(c, P)
    IN  IF near = {} THEN Real(0, 0)
        ELSE Real(100, CHOOSE d \in near : \A e \in near : d <= e)

ClaimScore(description, P) ==
    LET clue == _parse_clue(description)
    IN  RealAddInt(ClaimTypePoints(clue.type), ClaimBonus(clue.coord, P))

\* C6: over a non-empty path every clue's score is its type points plus
\* max(0, 100 - d), d the least distance from its parsed coordinate to the
\* path's vertices, and lies between 5 and 130.
C6_ScoreFormula ==
    RankedOverPath =>
        /\ "ranked_clues" \in DOMAIN response
        /\ \A i \in 1..Len(kb) : \E j \in 1..Len(response.ranked_clues) :
              /\ response.ranked_clues[j].id = kb[i].id
              /\ response.ranked_clues[j].score = ClaimScore(kb[i].description, path.list)
              /\ RealGE(response.ranked_clues[j].score, Real(5, 0))
              /\ RealGE(Real(130, 0), response.ranked_clues[j].score)

\* ------------------------------------------------------------ properties of _parse_clue
SepPositions(s) == {i \in 1..Len(s) : s[i] = SEP_AT}

FirstSep(s) == CHOOSE i \in SepPositions(s) : \A j \in SepPositions(s) : i <= j

\* Where the text after the first separator ends: before the second
\* separator, or with the description.
EndOfSecondPart(s) ==
    LET later == SepPositions(s) \ {FirstSep(s)}
    IN  IF later = {} THEN Len(s)
        ELSE (CHOOSE i \in later : \A j \in later : i <= j) - 1

IsNumber(t) == Strip(t) # <<>> /\ IsDigits(Strip(t))

\* The two numbers of a text that is exactly two comma-separated numeric
\* components, else (0.0, 0.0).
ClaimCoord(t) ==
    LET commas == {i \in 1..Len(t) : t[i] = ","}
        c == CHOOSE i \in commas : TRUE
    IN  IF /\ Cardinality(commas) = 1
           /\ IsNumber(SubSeq(t, 1, c - 1))
           /\ IsNumber(SubSeq(t, c + 1, Len(t)))
        THEN Coord(Num(DecimalValue(Strip(SubSeq(t, 1, c - 1)))),
                   Num(DecimalValue(Strip(SubSeq(t, c + 1, Len(t))))))
        ELSE Coord(Num(0), Num(0))

\* C7 as stated: parsing never fails; without the separator the type is
\* "unknown" and the coordinate (0.0, 0.0); with it the type is the trimmed
\* text before it and the coordinate is read from the whole text after it,
\* (0.0, 0.0) when that text is not exactly two numeric components.
C7_ParseAsStated ==
    parsed # NotYet =>
        /\ ~Raised(parsed)
        /\ IF SepPositions(desc) = {}
           THEN parsed = [type |-> <<"unknown">>, coord |-> Coord(Num(0), Num(0))]
           ELSE /\ parsed.type = Strip(SubSeq(desc, 1, FirstSep(desc) - 1))
                /\ parsed.coord = ClaimCoord(SubSeq(desc, FirstSep(desc) + 1, Len(desc)))

\* C7 as amended: as stated, but the coordinate is read from the text
\* between the first separator and the second one (or the end of the
\* description when there is no second one).
C7_ParseAmended ==
    parsed # NotYet =>
        /\ ~Raised(parsed)
        /\ IF SepPositions(desc) = {}
           THEN parsed = [type |-> <<"unknown">>, coord |-> Coord(Num(0), Num(0))]
           ELSE /\ parsed.type = Strip(SubSeq(desc, 1, FirstSep(desc) - 1))
                /\ parsed.coord =
                      ClaimCoord(SubSeq(desc, FirstSep(desc) + 1, EndOfSecondPart(desc)))

\* A description with two separators whose coordinate was read from the
\* text between them.
C7_Witness ==
    /\ parsed # NotYet
    /\ Cardinality(SepPositions(desc)) = 2
    /\ parsed.coord = Coord(Num(3), Num(3))

====
